---- MODULE Spec2Model ----
(***************************************************************************)
(* Model of weather-places14.py: one Streamlit script run per user         *)
(* interaction.  A run reads the three widgets, fetches the weather and    *)
(* renders one of five views through a sequence of blocking provider       *)
(* calls.  Every provider call is one step; its response is chosen by the  *)
(* provider (nondeterministically).  `log` records the requests issued and *)
(* the geodesic computations made, `ui` the elements rendered, `fault` an  *)
(* exception that left the script uncaught.                                *)
(*                                                                         *)
(* Python values: a text is a sequence of one-character strings; a dict is *)
(* a function on its keys; an optional number is <<>> (None) or <<n>>.     *)
(* Coordinates are points of a small integer grid and geodesic() is the    *)
(* grid's taxicab metric in hundredths of a kilometre: a stand-in for the  *)
(* geopy library call that keeps what the script relies on (a total order  *)
(* of distances, with ties).                                               *)
(***************************************************************************)
EXTENDS Integers, Sequences, FiniteSets

VARIABLES
    pc,             \* position of the script run
    place,          \* st.text_input("Place")
    selected_info,  \* st.selectbox("Choose Information Category")
    user_location,  \* st.text_input("Your Starting Location")
    caller,         \* who called get_nearest_railway_station_coords
    latlng,         \* lat, lng of get_places_with_distances / show_travel_info
    rs_latlng,      \* lat, lng of get_nearest_railway_station_coords
    station,        \* station_lat, station_lng
    ap_latlng,      \* lat, lng of get_nearest_airport_info
    results,        \* results of the last nearby search being iterated
    idx,            \* position of the for loop in results
    places,         \* places of get_places_with_distances
    nearest,        \* nearest of get_nearest_airport_info (<<>> is None)
    min_dist,       \* min_dist of get_nearest_airport_info
    airport,        \* airport_name, airport_dist of show_travel_info
    wiki,           \* summary, url of the Overview view (line 170)
    log,            \* provider requests and geodesic calls, in order
    ui,             \* rendered elements, in order
    fault           \* "none", or the exception that escaped the run

vars == <<pc, place, selected_info, user_location, caller, latlng, rs_latlng,
          station, ap_latlng, results, idx, places, nearest, min_dist,
          airport, wiki, log, ui, fault>>

---------------------------------------------------------------------------
(* Bounds and domains *)

\* longest result list a nearby search returns
MaxResults == 2

HTTP_OK == 200

RADIUS_STATION == 20000

RADIUS_PLACES == 50000

RADIUS_AIRPORT == 200000

WIKI_SENTENCES == 5

None == <<>>

Some(v) == <<v>>

\* Python truthiness of an optional number: None and 0 are falsy
Truthy(x) == x # None /\ x[1] # 0

NoCoords == <<None, None>>

Grid == {0, 1}

Coordinates == {<<Some(a), Some(b)>> : a \in Grid, b \in Grid}

Location(ll) == [lat |-> ll[1][1], lng |-> ll[2][1]]

Categories == {"Overview", "Visiting Places Around", "Famous Eateries",
               "Hotels to Stay", "How to Reach"}

PlaceInputs == {<<>>, <<" ", " ">>, <<"N", " ", "Y">>}

OriginInputs == {<<>>, <<"A", " ", "B">>, <<"?">>}

\* the text no provider can geocode
Resolvable(text) == text # <<"?">>

SeqsUpTo(S, n) == UNION {[1..k -> S] : k \in 0..n}

\* dict.get(key, default)
Get(d, k, default) == IF k \in DOMAIN d THEN d[k] ELSE default

Abs(n) == IF n < 0 THEN 0 - n ELSE n

---------------------------------------------------------------------------
(* Text helpers *)

IsSpace(c) == c = " "

RECURSIVE LStrip(_)
LStrip(s) == IF s # <<>> /\ IsSpace(Head(s)) THEN LStrip(Tail(s)) ELSE s

RECURSIVE RStrip(_)
RStrip(s) ==
    IF s # <<>> /\ IsSpace(s[Len(s)]) THEN RStrip(SubSeq(s, 1, Len(s) - 1)) ELSE s

\* str.strip()
Strip(s) == RStrip(LStrip(s))

\* str.replace(' ', '+')
ReplaceSpaces(s) == [i \in 1..Len(s) |-> IF s[i] = " " THEN "+" ELSE s[i]]

Upper(c) ==
    CASE c = "r" -> "R" [] c = "a" -> "A" [] c = "i" -> "I" [] c = "n" -> "N"
      [] OTHER -> c

Lower(c) ==
    CASE c = "R" -> "r" [] c = "A" -> "a" [] c = "I" -> "i" [] c = "N" -> "n"
      [] OTHER -> c

\* str.capitalize(): first character upper-cased, the rest lower-cased
Capitalize(s) == [i \in 1..Len(s) |-> IF i = 1 THEN Upper(s[i]) ELSE Lower(s[i])]

---------------------------------------------------------------------------
(* Provider responses *)

\* a requests.Response: status_code, whether the body parses as JSON, and
\* the parsed body
Response(code, isjson, body) == [status_code |-> code, is_json |-> isjson, json |-> body]

ErrorBody == [error_message |-> "unavailable"]

\* non-success replies: a JSON error object, or a body that is not JSON
FailedResponses ==
    {Response(500, TRUE, ErrorBody), Response(502, FALSE, ErrorBody)}

WeatherResponses ==
    {Response(HTTP_OK, TRUE,
              [main |-> [temp |-> t], weather |-> <<[description |-> d]>>]) :
        t \in {24}, d \in {<<"r", "A", "i", "n">>}}
    \cup {Response(404, TRUE, ErrorBody)}

GeocodeResponses ==
    {Response(HTTP_OK, TRUE, [results |-> <<>>])}
    \cup {Response(HTTP_OK, TRUE,
                   [results |-> <<[geometry |-> [location |-> Location(c)]]>>]) :
            c \in Coordinates}
    \cup {Response(500, TRUE, ErrorBody)}

\* railway stations and airports: every entry carries name and geometry,
\* vicinity is optional
Poi(n, c) == [name |-> n, vicinity |-> "Main Rd", geometry |-> [location |-> Location(c)]]

BarePoi(n, c) == [name |-> n, geometry |-> [location |-> Location(c)]]

Stations == {BarePoi("Central", c) : c \in Coordinates}

Airports ==
    {Poi("Intl", c) : c \in {x \in Coordinates : x[1] = Some(0)}}
    \cup {BarePoi("Airfield", c) : c \in {x \in Coordinates : x[1] # Some(0)}}

\* category search results: vicinity, rating and geometry are optional
\* (the script reads each of them with a default)
Candidates ==
    {[name |-> "Fort", vicinity |-> "Hill Rd", rating |-> "4.5",
      geometry |-> [location |-> Location(c)]] : c \in Coordinates}
    \cup {[name |-> "Cafe", geometry |-> [location |-> Location(<<Some(1), Some(1)>>)]],
          [name |-> "Inn", vicinity |-> "Lake Rd", rating |-> "3.9"]}

NearbyResponses(S) ==
    {Response(HTTP_OK, TRUE, [results |-> rs]) : rs \in SeqsUpTo(S, MaxResults)}
    \cup FailedResponses

Leg == [duration |-> [text |-> "2 hours"], distance |-> [text |-> "120 km"]]

\* the directions provider finds no route from an origin it cannot geocode
DirectionsResponses(origin) ==
    {Response(HTTP_OK, TRUE, [routes |-> <<>>, status |-> "NOT_FOUND"])}
    \cup {Response(HTTP_OK, TRUE, [routes |-> <<[legs |-> <<Leg>>]>>, status |-> "OK"]) :
            x \in {o \in {origin} : Resolvable(o)}}
    \cup FailedResponses

\* outcomes of one wikipedia library call
WikiOutcomes == {"ok", "PageError", "DisambiguationError", "ConnectionError"}

---------------------------------------------------------------------------
(* The script's functions, as functions of the provider's response *)

Request(api, params) == [api |-> api, params |-> params]

\* a wikipedia library call, with how it ended
WikiCall(api, params, outcome) == [api |-> api, params |-> params, outcome |-> outcome]

\* get_weather: the text returned for response r
get_weather(r) ==
    IF r.status_code = HTTP_OK
    THEN <<"T ", r.json.main.temp, " C, ", Capitalize(r.json.weather[1].description)>>
    ELSE <<"Couldn't fetch weather.">>

WikiFallback == [summary |-> "No Wikipedia summary available.", url |-> ""]

\* a variant that guards only the summary lookup: a failed page lookup leaves
\* the summary with an empty URL
get_wiki_summary_unguarded_page(s, p) ==
    IF s = "ok"
    THEN [summary |-> "summary text",
          url |-> IF p = "ok" THEN "https://en.wikipedia.org/wiki/Place" ELSE ""]
    ELSE [summary |-> "No Wikipedia summary available.", url |-> ""]

\* get_wiki_summary: the pair returned when wikipedia.summary ends with
\* outcome s and wikipedia.page with outcome p (page is only called after
\* summary returned); the bare except catches every exception
get_wiki_summary(s, p) ==
    IF s = "ok" /\ p = "ok"
    THEN [summary |-> "summary text", url |-> "https://en.wikipedia.org/wiki/Place"]
    ELSE WikiFallback

\* get_coordinates: the pair returned for response r
get_coordinates(r) ==
    IF r.status_code = HTTP_OK
    THEN LET res == Get(r.json, "results", <<>>)
         IN IF res # <<>>
            THEN <<Some(res[1].geometry.location.lat), Some(res[1].geometry.location.lng)>>
            ELSE NoCoords
    ELSE NoCoords

get_recommendation(p) == <<p, " offers a unique travel experience.">>

\* geodesic(a, b).km in hundredths of a kilometre
geodesic(a, b) == 125 * (Abs(a[1][1] - b[1][1]) + Abs(a[2][1] - b[2][1]))

\* format spec .1f: hundredths rounded to tenths
Format1f(d) == (d + 5) \div 10

\* f"{lat},{lng}"
LocationParam(ll) == <<ll[1], ",", ll[2]>>

NearbyKeyword(ll, radius, keyword) ==
    Request("nearbysearch", [location |-> LocationParam(ll), radius |-> radius,
                             keyword |-> keyword])

NearbyType(ll, radius, type) ==
    Request("nearbysearch", [location |-> LocationParam(ll), radius |-> radius,
                             type |-> type])

PlaceType(s) ==
    CASE s = "Visiting Places Around" -> "tourist_attraction"
      [] s = "Famous Eateries" -> "restaurant"
      [] s = "Hotels to Stay" -> "lodging"

ViewHeader(s) ==
    CASE s = "Visiting Places Around" -> "Tourist Attractions"
      [] s = "Famous Eateries" -> "Famous Eateries"
      [] s = "Hotels to Stay" -> "Hotels to Stay"

Element(kind, body) == [kind |-> kind, body |-> body]

\* a variant that tests the raw text: if place
PlaceGivenUnstripped(p) == p # <<>>

\* line 165: if place.strip()
PlaceGiven(p) == Strip(p) # <<>>

\* line 67: if not lat or not station_lat
PlacesGuard(lat, station_lat) == ~Truthy(lat) \/ ~Truthy(station_lat)

\* a variant with the test inverted: if lat
TravelGuardInverted(lat) == Truthy(lat)

\* line 126: if not lat
TravelGuard(lat) == ~Truthy(lat)

\* a variant that centres the category search on the station
SearchCentreStation(ll, station_ll) == station_ll

\* line 71: the category search is centred on the place's own lat, lng
SearchCentre(ll, station_ll) == ll

\* a variant that always retries with the generic keyword
NeedsFallbackAlways(rs) == TRUE

\* line 102: if not results
NeedsFallback(rs) == rs = <<>>

\* a variant with the comparison weakened: if dist <= min_dist
CloserOrEqual(dist, m) == m = None \/ dist <= m[1]

\* line 111: if dist < min_dist  (min_dist None stands for float("inf"))
Closer(dist, m) == m = None \/ dist < m[1]

\* r.json(): raises when the body is not JSON
JsonFails(r) == ~r.is_json

---------------------------------------------------------------------------
(* The script run *)

Init ==
    /\ pc = "start"
    /\ place = <<>>
    /\ selected_info = "Overview"
    /\ user_location = <<>>
    /\ caller = "none"
    /\ latlng = NoCoords
    /\ rs_latlng = NoCoords
    /\ station = NoCoords
    /\ ap_latlng = NoCoords
    /\ results = <<>>
    /\ idx = 1
    /\ places = <<>>
    /\ nearest = <<>>
    /\ min_dist = None
    /\ airport = [name |-> <<>>, dist |-> 0]
    /\ wiki = [summary |-> "", url |-> ""]
    /\ log = <<>>
    /\ ui = <<>>
    /\ fault = "none"

\* an uncaught exception ends the run
Raise(exc) == pc' = "done" /\ fault' = exc

\* The user sets the widgets and the script runs from the top (lines
\* 158-166): nothing of the previous run survives.
Rerun ==
    /\ pc \in {"start", "done"}
    /\ \E p \in PlaceInputs, s \in Categories, u \in OriginInputs :
          /\ s # "How to Reach" => u = <<>>
          /\ place' = p
          /\ selected_info' = s
          /\ user_location' = u
          /\ IF PlaceGiven(p)
             THEN /\ ui' = <<Element("subheader", <<"Exploring: ", p>>)>>
                  /\ pc' = "weather"
             ELSE /\ ui' = <<>>
                  /\ pc' = "done"
    /\ caller' = "none"
    /\ latlng' = NoCoords
    /\ rs_latlng' = NoCoords
    /\ station' = NoCoords
    /\ ap_latlng' = NoCoords
    /\ results' = <<>>
    /\ idx' = 1
    /\ places' = <<>>
    /\ nearest' = <<>>
    /\ min_dist' = None
    /\ airport' = [name |-> <<>>, dist |-> 0]
    /\ wiki' = [summary |-> "", url |-> ""]
    /\ log' = <<>>
    /\ fault' = "none"

\* line 167, then the dispatch of lines 169-194 up to the view's first
\* provider call
Weather ==
    /\ pc = "weather"
    /\ \E r \in WeatherResponses :
          LET shown == Append(ui, Element("write", get_weather(r)))
          IN  /\ log' = Append(log, Request("weather",
                                 [q |-> place, units |-> "metric"]))
              /\ CASE selected_info = "Overview" ->
                        ui' = shown /\ pc' = "overview"
                   [] selected_info = "How to Reach" ->
                        /\ ui' = shown
                        /\ pc' = IF user_location # <<>> THEN "travel" ELSE "done"
                   [] OTHER ->
                        /\ ui' = Append(shown, Element("subheader", ViewHeader(selected_info)))
                        /\ pc' = "places"
    /\ UNCHANGED <<place, selected_info, user_location, caller, latlng, rs_latlng,
                   station, ap_latlng, results, idx, places, nearest, min_dist,
                   airport, wiki, fault>>

\* lines 170-174
Overview ==
    /\ pc = "overview"
    /\ \E s \in WikiOutcomes, p \in WikiOutcomes :
          LET w == get_wiki_summary(s, p)
              calls == <<WikiCall("wikipedia.summary",
                                  [title |-> place, sentences |-> WIKI_SENTENCES], s)>>
                       \o (IF s = "ok"
                           THEN <<WikiCall("wikipedia.page", [title |-> place], p)>>
                           ELSE <<>>)
          IN  /\ s # "ok" => p = s
              /\ wiki' = w
              /\ log' = log \o calls
              /\ ui' = ui \o <<Element("markdown", <<"Overview: ", w.summary>>)>>
                          \o (IF w.url # ""
                              THEN <<Element("markdown", <<"Read more: ", w.url>>)>>
                              ELSE <<>>)
                          \o <<Element("info", get_recommendation(place))>>
    /\ pc' = "done"
    /\ UNCHANGED <<place, selected_info, user_location, caller, latlng, rs_latlng,
                   station, ap_latlng, results, idx, places, nearest, min_dist,
                   airport, fault>>

GeocodeRequest == Request("geocode", [address |-> place])

\* line 65: get_places_with_distances geocodes the place, then calls
\* get_nearest_railway_station_coords (line 66)
PlacesGeocode ==
    /\ pc = "places"
    /\ \E r \in GeocodeResponses : latlng' = get_coordinates(r)
    /\ log' = Append(log, GeocodeRequest)
    /\ caller' = "places"
    /\ pc' = "station"
    /\ UNCHANGED <<place, selected_info, user_location, rs_latlng, station,
                   ap_latlng, results, idx, places, nearest, min_dist, airport, wiki,
                   ui, fault>>

\* line 124: show_travel_info geocodes the place, then calls
\* get_nearest_railway_station_coords (line 125)
TravelGeocode ==
    /\ pc = "travel"
    /\ \E r \in GeocodeResponses : latlng' = get_coordinates(r)
    /\ log' = Append(log, GeocodeRequest)
    /\ caller' = "travel"
    /\ pc' = "station"
    /\ UNCHANGED <<place, selected_info, user_location, rs_latlng, station,
                   ap_latlng, results, idx, places, nearest, min_dist, airport, wiki,
                   ui, fault>>

\* where get_nearest_railway_station_coords returns to
StationReturn == IF caller = "places" THEN "places_search" ELSE "travel_check"

\* lines 46-48
StationGeocode ==
    /\ pc = "station"
    /\ \E r \in GeocodeResponses :
          LET ll == get_coordinates(r)
          IN  /\ rs_latlng' = ll
              /\ IF ll[1] = None
                 THEN station' = NoCoords /\ pc' = StationReturn
                 ELSE station' = station /\ pc' = "station_search"
    /\ log' = Append(log, GeocodeRequest)
    /\ UNCHANGED <<place, selected_info, user_location, caller, latlng, ap_latlng,
                   results, idx, places, nearest, min_dist, airport, wiki, ui, fault>>

\* lines 49-61
StationSearch ==
    /\ pc = "station_search"
    /\ log' = Append(log, NearbyKeyword(rs_latlng, RADIUS_STATION, "railway station"))
    /\ \E r \in NearbyResponses(Stations) :
          IF JsonFails(r)
          THEN Raise("JSONDecodeError") /\ station' = station
          ELSE LET rs == Get(r.json, "results", <<>>)
               IN  /\ station' = IF rs # <<>>
                                 THEN <<Some(rs[1].geometry.location.lat),
                                        Some(rs[1].geometry.location.lng)>>
                                 ELSE NoCoords
                   /\ pc' = StationReturn
                   /\ fault' = fault
    /\ UNCHANGED <<place, selected_info, user_location, caller, latlng, rs_latlng,
                   ap_latlng, results, idx, places, nearest, min_dist, airport, wiki, ui>>

\* lines 67-78
PlacesSearch ==
    /\ pc = "places_search"
    /\ IF PlacesGuard(latlng[1], station[1])
       THEN \* return []: the view's for loop (lines 178-179) renders nothing
            /\ pc' = "done"
            /\ UNCHANGED <<wiki, results, idx, places, log, fault>>
       ELSE /\ log' = Append(log, NearbyType(SearchCentre(latlng, station), RADIUS_PLACES,
                                             PlaceType(selected_info)))
            /\ \E r \in NearbyResponses(Candidates) :
                  IF JsonFails(r)
                  THEN Raise("JSONDecodeError") /\ UNCHANGED <<results, idx, places>>
                  ELSE /\ results' = Get(r.json, "results", <<>>)
                       /\ idx' = 1
                       /\ places' = <<>>
                       /\ pc' = "places_loop"
                       /\ fault' = fault
    /\ UNCHANGED <<place, selected_info, user_location, caller, latlng, rs_latlng,
                   station, ap_latlng, nearest, min_dist, airport, wiki, ui>>

EmptyDict == [k \in {} |-> k]

\* lines 79-85: one iteration of the for loop
PlacesLoop ==
    /\ pc = "places_loop"
    /\ idx <= Len(results)
    /\ LET p == results[idx]
           name == Get(p, "name", "None")
           address == Get(p, "vicinity", "")
           rating == Get(p, "rating", "N/A")
           loc == Get(Get(p, "geometry", EmptyDict), "location", EmptyDict)
       IN  IF "lat" \notin DOMAIN loc \/ "lng" \notin DOMAIN loc
           THEN Raise("KeyError") /\ UNCHANGED <<idx, places, log>>
           ELSE LET b == <<Some(loc.lat), Some(loc.lng)>>
                    dist == geodesic(station, b)
                IN  /\ log' = Append(log, Request("geodesic", [a |-> station, b |-> b]))
                    /\ places' = Append(places, [name |-> name, address |-> address,
                                                 rating |-> rating,
                                                 dist |-> Format1f(dist)])
                    /\ idx' = idx + 1
                    /\ UNCHANGED <<wiki, pc, fault>>
    /\ UNCHANGED <<place, selected_info, user_location, caller, latlng, rs_latlng,
                   station, ap_latlng, results, nearest, min_dist, airport, wiki, ui>>

\* line 86, and the view's for loop over the returned list (lines 178-189)
PlacesReturn ==
    /\ pc = "places_loop"
    /\ idx > Len(results)
    /\ ui' = ui \o [i \in 1..Len(places) |-> Element("write", places[i])]
    /\ pc' = "done"
    /\ UNCHANGED <<place, selected_info, user_location, caller, latlng, rs_latlng,
                   station, ap_latlng, results, idx, places, nearest, min_dist,
                   airport, wiki, log, fault>>

\* lines 126-129
TravelCheck ==
    /\ pc = "travel_check"
    /\ IF TravelGuard(latlng[1])
       THEN /\ ui' = Append(ui, Element("error", "Could not fetch travel data."))
            /\ pc' = "done"
       ELSE /\ ui' = ui
            /\ pc' = "airport"
    /\ UNCHANGED <<place, selected_info, user_location, caller, latlng, rs_latlng,
                   station, ap_latlng, results, idx, places, nearest, min_dist,
                   airport, wiki, log, fault>>

\* lines 90-92
AirportGeocode ==
    /\ pc = "airport"
    /\ log' = Append(log, GeocodeRequest)
    /\ \E r \in GeocodeResponses :
          LET ll == get_coordinates(r)
          IN  /\ ap_latlng' = ll
              /\ IF ll[1] = None
                 THEN /\ airport' = [name |-> <<"Unknown">>, dist |-> 0]
                      /\ pc' = "directions"
                 ELSE /\ airport' = airport
                      /\ pc' = "airport_search"
    /\ UNCHANGED <<wiki, place, selected_info, user_location, caller, latlng, rs_latlng,
                   station, results, idx, places, nearest, min_dist, ui, fault>>

\* the nearby search of get_nearest_airport_info with the given keyword;
\* lines 106-107 run once the search that is the last one has returned
AirportNearby(keyword, mayFallBack) ==
    /\ log' = Append(log, NearbyKeyword(ap_latlng, RADIUS_AIRPORT, keyword))
    /\ \E r \in NearbyResponses(Airports) :
          IF JsonFails(r)
          THEN Raise("JSONDecodeError") /\ UNCHANGED <<results, idx, nearest, min_dist>>
          ELSE LET rs == Get(r.json, "results", <<>>)
               IN  /\ results' = rs
                   /\ idx' = 1
                   /\ nearest' = <<>>
                   /\ min_dist' = None
                   /\ pc' = IF mayFallBack /\ NeedsFallback(rs)
                            THEN "airport_fallback" ELSE "airport_loop"
                   /\ fault' = fault
    /\ UNCHANGED <<place, selected_info, user_location, caller, latlng, rs_latlng,
                   station, ap_latlng, places, airport, wiki, ui>>

\* lines 93-102
AirportSearch ==
    /\ pc = "airport_search"
    /\ AirportNearby("international airport", TRUE)

\* lines 103-105
AirportFallback ==
    /\ pc = "airport_fallback"
    /\ AirportNearby("airport", FALSE)

\* lines 108-113: one iteration of the for loop
AirportLoop ==
    /\ pc = "airport_loop"
    /\ idx <= Len(results)
    /\ LET ap == results[idx]
           loc == ap.geometry.location
           b == <<Some(loc.lat), Some(loc.lng)>>
           dist == geodesic(ap_latlng, b)
       IN  /\ log' = Append(log, Request("geodesic", [a |-> ap_latlng, b |-> b]))
           /\ IF Closer(dist, min_dist)
              THEN min_dist' = Some(dist) /\ nearest' = <<ap>>
              ELSE UNCHANGED <<min_dist, nearest>>
    /\ idx' = idx + 1
    /\ UNCHANGED <<pc, place, selected_info, user_location, caller, latlng,
                   rs_latlng, station, ap_latlng, results, places, airport, wiki, ui,
                   fault>>

\* lines 114-116, returning to line 129
AirportReturn ==
    /\ pc = "airport_loop"
    /\ idx > Len(results)
    /\ airport' = IF nearest # <<>>
                  THEN [name |-> <<nearest[1].name, " (",
                                   Get(nearest[1], "vicinity", ""), ")">>,
                        dist |-> min_dist[1]]
                  ELSE [name |-> <<"Not Found">>, dist |-> 0]
    /\ pc' = "directions"
    /\ UNCHANGED <<wiki, place, selected_info, user_location, caller, latlng, rs_latlng,
                   station, ap_latlng, results, idx, places, nearest, min_dist,
                   log, ui, fault>>

\* line 143
MapLink(origin, destination) ==
    <<"https://www.google.com/maps/dir/">> \o ReplaceSpaces(origin) \o <<"/">>
        \o ReplaceSpaces(destination)

\* lines 130-152
Directions ==
    /\ pc = "directions"
    /\ log' = Append(log, Request("directions",
                 [origin |-> user_location, destination |-> place, mode |-> "driving"]))
    /\ \E r \in DirectionsResponses(user_location) :
          IF JsonFails(r)
          THEN Raise("JSONDecodeError") /\ ui' = ui
          ELSE LET routes == Get(r.json, "routes", <<>>)
               IN  /\ IF routes # <<>>
                      THEN LET leg == routes[1].legs[1]
                           IN  ui' = Append(ui, Element("markdown",
                                   [air |-> airport.name,
                                    air_km |-> Format1f(airport.dist),
                                    map_link |-> MapLink(user_location, place),
                                    duration |-> leg.duration.text,
                                    distance |-> leg.distance.text]))
                      ELSE ui' = Append(ui, Element("warning",
                                   "Couldn't fetch travel time from Google Maps."))
                   /\ pc' = "done"
                   /\ fault' = fault
    /\ UNCHANGED <<place, selected_info, user_location, caller, latlng, rs_latlng,
                   station, ap_latlng, results, idx, places, nearest, min_dist,
                   airport, wiki>>

Next ==
    \/ Rerun
    \/ Weather
    \/ Overview
    \/ PlacesGeocode
    \/ TravelGeocode
    \/ StationGeocode
    \/ StationSearch
    \/ PlacesSearch
    \/ PlacesLoop
    \/ PlacesReturn
    \/ TravelCheck
    \/ AirportGeocode
    \/ AirportSearch
    \/ AirportFallback
    \/ AirportLoop
    \/ AirportReturn
    \/ Directions

Spec == Init /\ [][Next]_vars

---------------------------------------------------------------------------
(* Properties *)

Indices(api) == {i \in 1..Len(log) : log[i].api = api}

IsKeywordSearch(e, keyword) ==
    e.api = "nearbysearch" /\ Get(e.params, "keyword", "") = keyword

IsTypeSearch(e) == e.api = "nearbysearch" /\ "type" \in DOMAIN e.params

IsAirportSearch(e) ==
    IsKeywordSearch(e, "international airport") \/ IsKeywordSearch(e, "airport")

AirportSearches == {i \in 1..Len(log) : IsAirportSearch(log[i])}

Rendered(kind) == \E i \in 1..Len(ui) : ui[i].kind = kind

PlacesViews == {"Visiting Places Around", "Famous Eateries", "Hotels to Stay"}

\* the run is inside, or has left, get_places_with_distances
InPlaces == caller = "places"

\* the run is inside, or has left, show_travel_info
InTravel == caller = "travel"

\* C1: every geodesic computation of get_places_with_distances and
\* get_nearest_airport_info has both coordinate pairs resolved, and an
\* unresolved place, station or candidate coordinate makes the operation
\* short-circuit: it neither computes a distance nor raises.
C1_ResolvedOrShortCircuit ==
    /\ \A i \in Indices("geodesic") :
          log[i].params.a \in Coordinates /\ log[i].params.b \in Coordinates
    /\ fault # "KeyError"

C3_Step ==
    LET n == Len(log)
        grew == Len(log') = n + 1
        new == log'[n + 1]
    IN  /\ (grew /\ IsKeywordSearch(new, "international airport"))
              => AirportSearches = {} /\ new.params.radius = RADIUS_AIRPORT
        /\ (grew /\ IsKeywordSearch(new, "airport"))
              => /\ results = <<>>
                 /\ AirportSearches = {n}
                 /\ IsKeywordSearch(log[n], "international airport")
                 /\ new.params.location = log[n].params.location
                 /\ new.params.radius = log[n].params.radius
        /\ (pc = "airport_search" /\ fault' = "none")
              => (pc' = "airport_fallback" <=> results' = <<>>)
        /\ (pc = "airport_fallback" /\ fault' = "none") => pc' = "airport_loop"
        /\ (pc = "airport_loop" /\ pc' = "directions" /\ results = <<>>)
              => /\ Cardinality(AirportSearches) = 2
                 /\ airport' = [name |-> <<"Not Found">>, dist |-> 0]
        /\ Cardinality({i \in 1..Len(log') : IsAirportSearch(log'[i])}) <= 2

C3_FallbackOnce == [][C3_Step]_vars

C3_Witness ==
    /\ pc = "directions"
    /\ Cardinality(AirportSearches) = 2
    /\ airport = [name |-> <<"Not Found">>, dist |-> 0]

\* C4: when the place cannot be geocoded, each of the four dependent views
\* ends with a user-visible error message.
C4_UnresolvedPlaceShowsError ==
    (pc = "done" /\ fault = "none" /\ (InPlaces \/ InTravel) /\ latlng[1] = None)
        => Rendered("error")

\* C5: no exception escapes a client function to the view dispatch,
\* whatever the provider answers.
C5_NoFaultEscapes == fault = "none"

\* C6: a run of show_travel_info ends in exactly one of the error (iff the
\* place could not be geocoded), the warning or the composite display (iff
\* it could), whatever the station and airport lookups found.
C6_ThreeOutcomes ==
    (pc = "done" /\ InTravel)
        => LET e == Rendered("error")
               w == Rendered("warning")
               d == Rendered("markdown")
           IN  /\ e <=> latlng[1] = None
               /\ (w \/ d) <=> latlng[1] # None
               /\ ~(w /\ d) /\ ~(e /\ w) /\ ~(e /\ d)

\* C7: get_wiki_summary returns the summary with its URL only when both the
\* summary lookup and the page lookup succeeded; whichever lookup fails, and
\* however, it returns exactly the fallback pair, so a real summary never
\* comes with an empty URL.
C7_SummaryOrFallback ==
    (pc = "done" /\ selected_info = "Overview" /\ log # <<>>)
        => LET failed == \E i \in 1..Len(log) :
                            "outcome" \in DOMAIN log[i] /\ log[i].outcome # "ok"
               real == wiki.summary # WikiFallback.summary
           IN  /\ failed => wiki = WikiFallback
               /\ ~failed => (real /\ wiki.url # ""
                                   /\ Indices("wikipedia.page") # {})
               /\ ~(real /\ wiki.url = "")
               /\ Rendered("markdown")

C7_Witness ==
    /\ pc = "done" /\ selected_info = "Overview"
    /\ \E i \in Indices("wikipedia.page") : log[i].outcome = "DisambiguationError"
    /\ wiki = WikiFallback

\* the station search, the category search, and the position of a call in
\* the order geocode, station search, category search, distance
Rank(e) ==
    CASE e.api = "weather" -> 0
      [] e.api = "geocode" -> 1
      [] IsKeywordSearch(e, "railway station") -> 2
      [] IsTypeSearch(e) -> 3
      [] e.api = "geodesic" -> 4
      [] OTHER -> 5

TypeSearches == {i \in 1..Len(log) : IsTypeSearch(log[i])}

CandidateCoords(c) == <<Some(c.geometry.location.lat), Some(c.geometry.location.lng)>>

\* C8: in the three places views the calls come in the order geocode,
\* station keyword search (20 km), category search (50 km, centred on the
\* place's own coordinate), one distance per candidate from the station; the
\* category search is issued only with the place and a station resolved; and
\* the returned list has one line per candidate, in provider order.
C8_PlacesCallOrder ==
    (selected_info \in PlacesViews)
        => /\ \A i, j \in 1..Len(log) : i < j => Rank(log[i]) <= Rank(log[j])
           /\ \A i \in 1..Len(log) : Rank(log[i]) < 5
           /\ \A i \in 1..Len(log) :
                 IsKeywordSearch(log[i], "railway station")
                    => log[i].params.radius = RADIUS_STATION
           /\ Cardinality(TypeSearches) <= 1
           /\ \A i \in TypeSearches :
                 /\ log[i].params.radius = RADIUS_PLACES
                 /\ log[i].params.type = PlaceType(selected_info)
                 /\ latlng \in Coordinates /\ station \in Coordinates
                 /\ log[i].params.location = LocationParam(latlng)
                 /\ \E k \in 1..(i - 1) : IsKeywordSearch(log[k], "railway station")
           /\ \A i \in TypeSearches : \A k \in 1..Len(places) :
                 /\ log[i + k] = Request("geodesic",
                                    [a |-> station, b |-> CandidateCoords(results[k])])
                 /\ places[k].name = results[k].name
                 /\ places[k].dist = Format1f(geodesic(station, CandidateCoords(results[k])))
           /\ Cardinality(Indices("geodesic")) = Len(places)
           /\ (pc = "done" /\ fault = "none" /\ TypeSearches # {})
                 => /\ Len(places) = Len(results)
                    /\ Len(ui) >= Len(places)
                    /\ \A k \in 1..Len(places) :
                          ui[Len(ui) - Len(places) + k] = Element("write", places[k])

C8_Witness ==
    /\ selected_info = "Famous Eateries" /\ pc = "done" /\ fault = "none"
    /\ Len(places) = 2
    /\ places[1].name = "Cafe" /\ places[2].name = "Fort"
    /\ places[1].rating = "N/A"
    /\ station # latlng

AirportDistance(k) == geodesic(ap_latlng, CandidateCoords(results[k]))

\* C9: when the airport search that was used returned candidates,
\* get_nearest_airport_info returns the candidate nearest to the place's own
\* coordinate, the earliest of them in provider order, and that distance.
C9_NearestAirport ==
    (InTravel /\ pc \in {"directions", "done"} /\ results # <<>>)
        => \E k \in 1..Len(results) :
              /\ \A j \in 1..Len(results) : AirportDistance(k) <= AirportDistance(j)
              /\ \A j \in 1..(k - 1) : AirportDistance(k) < AirportDistance(j)
              /\ airport.name = <<results[k].name, " (",
                                  Get(results[k], "vicinity", ""), ")">>
              /\ airport.dist = AirportDistance(k)

C9_Witness ==
    /\ InTravel /\ pc = "directions" /\ Len(results) = 2
    /\ AirportDistance(1) = AirportDistance(2)
    /\ results[1] # results[2]
    /\ airport.name[1] = results[1].name
    /\ station # ap_latlng /\ station # NoCoords

\* C10: a run with an empty or whitespace-only place issues no provider
\* call; any other run issues exactly one weather request, first, whatever
\* the category; and How to Reach with an empty origin issues nothing more.
C10_WeatherFirst ==
    /\ Strip(place) = <<>> => log = <<>>
    /\ pc = "weather" => log = <<>>
    /\ (Strip(place) # <<>> /\ pc \notin {"start", "weather"})
          => /\ log # <<>> /\ log[1].api = "weather"
             /\ Cardinality(Indices("weather")) = 1
    /\ (selected_info = "How to Reach" /\ user_location = <<>>) => Len(log) <= 1

C10_Witness ==
    /\ pc = "done" /\ selected_info = "Hotels to Stay"
    /\ Len(log) > 3 /\ log[1].api = "weather"

C10_WitnessBlank ==
    /\ pc = "done" /\ place = <<" ", " ">> /\ log = <<>>

====
